---- MODULE Spec2Model ----
(***************************************************************************)
(* Blogicum: the blog application's query layer (blog/querysets.py,        *)
(* blog/managers.py) and its request handlers (blog/views.py), modelled as *)
(* a state machine over the persistent store.  One action per request      *)
(* handler; a handler answers one request, the answer is delivered, and    *)
(* the next request is taken (one request at a time over the store).       *)
(***************************************************************************)
EXTENDS Integers, Sequences, FiniteSets, TLC

(* ------------------------------ bounds --------------------------------- *)
\* posts ever created (primary keys 1..MaxPosts are never reused)
MaxPosts == 2
\* comments ever created
MaxComments == 1
\* the clock runs over 0..MaxTime
MaxTime == 1
\* size of the largest store the pagination specification starts from
MaxItems == 21

(* --------------------------- program constants ------------------------- *)
\* blog/constants.py (imported at views.py:13); the value is the spec's
POSTS_PER_PAGE == 10

(* ------------------------------ identities ----------------------------- *)
Anonymous == "anon"
Users == {"alice", "root"}
Superusers == {"root"}
Clients == Users \cup {Anonymous}
\* usernames a profile URL may name: the users and one that does not exist
Usernames == Users \cup {"ghost"}

is_authenticated(user) == user \in Users
is_superuser(user) == user \in Superusers

\* the Category table: slug -> is_published (managed through the admin site)
Categories == {"travel", "drafts"}
CategoryIsPublished == [slug \in Categories |-> slug = "travel"]
\* slugs a category URL may name
Slugs == Categories \cup {"nowhere"}

Times == 0..MaxTime
PostIds == 1..MaxPosts
CommentIds == 1..MaxComments
\* comment texts a client may submit; the empty one fails validation
Texts == {"", "a", "b"}
Methods == {"GET", "POST"}

VARIABLES
    now,              \* django.utils.timezone.now()
    posts,            \* Post table: id -> row
    comments,         \* Comment table: id -> row
    next_post_id,     \* Post primary-key sequence
    next_comment_id,  \* Comment primary-key sequence
    request,          \* the request being answered (op = "none": no request)
    response          \* the answer to it

vars == <<now, posts, comments, next_post_id, next_comment_id, request, response>>
store == <<posts, comments>>

(* ------------------------------ requests ------------------------------- *)
\* the 'page' GET parameter: absent, a text, or a number
NoPageParam == [kind |-> "absent", n |-> 0, text |-> ""]
TextPage(t) == [kind |-> "text", n |-> 0, text |-> t]
IntPage(n) == [kind |-> "int", n |-> n, text |-> ""]
\* the values tried by the full specification (stores of at most MaxPosts)
FewPages == {NoPageParam, IntPage(2)}
\* the values tried by the pagination specification
ManyPages == {NoPageParam, TextPage("abc"), TextPage("last")}
                 \cup {IntPage(n) : n \in -1..4}

NoRequest ==
    [op |-> "none", user |-> Anonymous, method |-> "GET", post_id |-> 0,
     comment_id |-> 0, name |-> "", page |-> NoPageParam, text |-> "",
     valid |-> FALSE]

Req(op, user, method) == [NoRequest EXCEPT !.op = op, !.user = user, !.method = method]

(* ------------------------------ responses ------------------------------ *)
NoPage == [number |-> 0, num_pages |-> 0, object_list |-> <<>>]

\* status: "render" (200, a template), "redirect" (302 to a named view),
\* "not_found" (Http404), "server_error" (an uncaught exception).
\* guard: whether the handler compared the resource's author with the acting
\* user, and what came of it ("none": not consulted, "passed", "refused").
NoResponse ==
    [status |-> "none", to |-> "", post_id |-> 0, name |-> "",
     post_list |-> {}, page |-> NoPage, comment_count |-> <<>>,
     comments |-> {}, guard |-> "none", form_errors |-> FALSE]

render(template) == [NoResponse EXCEPT !.status = "render", !.to = template]
redirect(view) == [NoResponse EXCEPT !.status = "redirect", !.to = view]
redirect_to_post(post_id) ==
    [NoResponse EXCEPT !.status = "redirect", !.to = "blog:post_detail", !.post_id = post_id]
redirect_to_login == redirect("login")
Http404 == [NoResponse EXCEPT !.status = "not_found"]
ServerError == [NoResponse EXCEPT !.status = "server_error"]

(* ------------------------------ querysets ------------------------------ *)
\* A queryset is the set of ids of the rows it selects.
AllPosts == DOMAIN posts

category_published(qs) == {id \in qs : CategoryIsPublished[posts[id].category]}

published(qs) == {id \in qs : posts[id].is_published}

published_up_to_now(qs) == {id \in qs : posts[id].pub_date <= now}

\* mutant: the filter on the publish date is left out
available_without_date(qs) == published(category_published(qs))

available(qs) == published_up_to_now(published(category_published(qs)))

\* Count('comments') / post.comments.count()
comments_of(post_id) == {c \in DOMAIN comments : comments[c].post = post_id}
comment_count(post_id) == Cardinality(comments_of(post_id))
with_comment_count(qs) == [id \in qs |-> comment_count(id)]

\* the rows of qs newest first (ties by descending id)
Newer(a, b) ==
    \/ posts[a].pub_date > posts[b].pub_date
    \/ posts[a].pub_date = posts[b].pub_date /\ a > b
RECURSIVE order_by_pub_date_desc(_)
order_by_pub_date_desc(qs) ==
    IF qs = {} THEN <<>>
    ELSE LET first == CHOOSE a \in qs : \A b \in qs \ {a} : Newer(a, b)
         IN <<first>> \o order_by_pub_date_desc(qs \ {first})

SeqToSet(s) == {s[i] : i \in 1..Len(s)}

(* ------------------------------ pagination ----------------------------- *)
\* django.core.paginator.Paginator(queryset, POSTS_PER_PAGE): orphans = 0,
\* allow_empty_first_page = True
num_pages(count) ==
    LET hits == IF count > 1 THEN count ELSE 1
    IN (hits + POSTS_PER_PAGE - 1) \div POSTS_PER_PAGE

\* Paginator.page(number), number already validated
Paginator_page(list, number) ==
    LET bottom == (number - 1) * POSTS_PER_PAGE
        top == IF bottom + POSTS_PER_PAGE >= Len(list) THEN Len(list)
               ELSE bottom + POSTS_PER_PAGE
    IN [number |-> number, num_pages |-> num_pages(Len(list)),
        object_list |-> SubSeq(list, bottom + 1, top)]

\* Paginator.get_page: PageNotAnInteger -> page 1, EmptyPage -> last page
Paginator_get_page(list, page_number) ==
    IF page_number.kind # "int" THEN Paginator_page(list, 1)
    ELSE IF page_number.n < 1 \/ page_number.n > num_pages(Len(list))
         THEN Paginator_page(list, num_pages(Len(list)))
         ELSE Paginator_page(list, page_number.n)

paginate_queryset(list, page_number) == Paginator_get_page(list, page_number)

\* ListView with paginate_by (MultipleObjectMixin.paginate_queryset): an absent
\* parameter is page 1, "last" is the last page, any other text and any number
\* outside 1..num_pages raise Http404
ListView_page_number(list, page_number) ==
    CASE page_number.kind = "absent" -> 1
      [] page_number.kind = "text" ->
            IF page_number.text = "last" THEN num_pages(Len(list)) ELSE 0
      [] OTHER ->
            IF page_number.n >= 1 /\ page_number.n <= num_pages(Len(list))
            THEN page_number.n ELSE 0

ListView_invalid_page(list, page_number) == ListView_page_number(list, page_number) = 0

ListView_paginate(list, page_number) ==
    Paginator_page(list, ListView_page_number(list, page_number))

(* ------------------------------- forms --------------------------------- *)
\* CommentForm: the one field, text, is required
CommentForm_is_valid(text) == text # ""

\* What a client submits to a PostForm.  The form carries the post's fields but
\* not its author; an "author" key in the POST data is not a field of the form.
PostFormData ==
    [valid : {TRUE}, is_published : BOOLEAN, pub_date : Times,
     category : Categories, author : Clients]
InvalidPostForm ==
    [valid |-> FALSE, is_published |-> FALSE, pub_date |-> 0,
     category |-> "travel", author |-> Anonymous]
PostForms == PostFormData \cup {InvalidPostForm}

(* ----------------------------- authorization --------------------------- *)
\* mutant: the superuser clause is left out
test_func_author_only(object, user) == object.author = user

\* OnlyAuthorMixin.test_func
OnlyAuthorMixin_test_func(object, user) ==
    object.author = user \/ is_superuser(user)

\* edit_comment / delete_comment: `if comment.author != request.user: redirect`
comment_author_is_user(comment, user) == comment.author = user

\* mutant: a superuser is let through to unpublished posts
post_detail_hidden_unless_superuser(post, user) ==
    ~post.is_published /\ post.author # user /\ ~is_superuser(user)

\* post_detail: `if not post.is_published and post.author != request.user:
\* raise Http404`
post_detail_hidden(post, user) == ~post.is_published /\ post.author # user

\* get_post_or_404 / get_object_or_404: the row, or Http404 when it is absent
post_exists(post_id) == post_id \in DOMAIN posts
comment_exists(comment_id) == comment_id \in DOMAIN comments

(* ------------------------------- writes -------------------------------- *)
\* mutant: the author is taken from the submitted data
form_valid_author_from_form(form, user) ==
    [author |-> form.author, is_published |-> form.is_published,
     pub_date |-> form.pub_date, category |-> form.category]

\* PostCreateView.form_valid: the author is the acting user
PostCreateView_form_valid(form, user) ==
    [author |-> user, is_published |-> form.is_published,
     pub_date |-> form.pub_date, category |-> form.category]

\* UpdateView.form_valid for PostForm: the form's fields are written to the row
PostEditView_form_valid(post, form) ==
    [post EXCEPT !.is_published = form.is_published,
                 !.pub_date = form.pub_date, !.category = form.category]

\* comment = form.save(commit=False); comment.author = request.user;
\* comment.post = post
new_comment(text, user, post_id) ==
    [author |-> user, post |-> post_id, text |-> text]

Insert(table, id, row) == [i \in DOMAIN table \cup {id} |-> IF i = id THEN row ELSE table[i]]
Remove(table, ids) == [i \in DOMAIN table \ ids |-> table[i]]

\* Post.delete(): the row goes, and with it the comments that reference it
\* (Comment.post is a foreign key with on_delete=CASCADE)
cascade_comments(table, post_id) ==
    Remove(table, {c \in DOMAIN table : table[c].post = post_id})
\* mutant: the post's row is not removed
PostDeleteView_keeps_row(table, post_id) == table

PostDeleteView_delete(table, post_id) == Remove(table, {post_id})

(* ------------------------------ handlers ------------------------------- *)
\* The User table is fixed: UserProfileEditView (views.py 113-125), which
\* writes only to it, is left out.
Idle == request.op = "none"
ReadOnly == UNCHANGED <<now, posts, comments, next_post_id, next_comment_id>>

\* index (views.py 42-51); the list comes in the model's default order,
\* newest first
index(pages) ==
    \E user \in Clients, page \in pages :
        /\ Idle
        /\ request' = [Req("index", user, "GET") EXCEPT !.page = page]
        /\ LET post_list == available(AllPosts)
               page_obj == paginate_queryset(order_by_pub_date_desc(post_list), page)
           IN response' =
                [render("blog/index.html") EXCEPT
                    !.post_list = post_list,
                    !.page = page_obj,
                    !.comment_count = with_comment_count(SeqToSet(page_obj.object_list))]
        /\ ReadOnly

\* category_posts (views.py 77-87)
category_posts(pages) ==
    \E user \in Clients, category_slug \in Slugs, page \in pages :
        /\ Idle
        /\ request' = [Req("category_posts", user, "GET") EXCEPT
                          !.name = category_slug, !.page = page]
        /\ IF ~(category_slug \in Categories /\ CategoryIsPublished[category_slug])
           THEN response' = Http404
           ELSE LET category_posts_qs == {id \in AllPosts : posts[id].category = category_slug}
                    post_list == available(category_posts_qs)
                    page_obj == paginate_queryset(order_by_pub_date_desc(post_list), page)
                IN response' =
                     [render("blog/category.html") EXCEPT
                         !.name = category_slug,
                         !.post_list = post_list,
                         !.page = page_obj]
        /\ ReadOnly

\* UserProfileView (views.py 90-110)
UserProfileView(pages) ==
    \E user \in Clients, username \in Usernames, page \in pages :
        /\ Idle
        /\ request' = [Req("profile", user, "GET") EXCEPT
                          !.name = username, !.page = page]
        /\ IF username \notin Users
           THEN response' = Http404
           ELSE LET user_posts == {id \in AllPosts : posts[id].author = username}
                    queryset == order_by_pub_date_desc(user_posts)
                IN IF ListView_invalid_page(queryset, page)
                   THEN response' = Http404
                   ELSE LET page_obj == ListView_paginate(queryset, page)
                        IN response' =
                             [render("blog/profile.html") EXCEPT
                                 !.name = username,
                                 !.post_list = user_posts,
                                 !.page = page_obj,
                                 !.comment_count =
                                     with_comment_count(SeqToSet(page_obj.object_list))]
        /\ ReadOnly

\* post_detail (views.py 54-74).  Not behind login_required: an anonymous POST
\* with a valid form reaches `comment.author = request.user`, where assigning
\* AnonymousUser to the foreign key raises ValueError before anything is saved.
post_detail ==
    \E user \in Clients, method \in Methods, post_id \in PostIds, text \in Texts :
        /\ Idle
        /\ method = "GET" => text = ""
        /\ request' = [Req("post_detail", user, method) EXCEPT
                          !.post_id = post_id, !.text = text]
        /\ UNCHANGED <<now, posts, next_post_id>>
        /\ IF ~post_exists(post_id)
           THEN response' = Http404 /\ UNCHANGED <<comments, next_comment_id>>
           ELSE IF post_detail_hidden(posts[post_id], user)
           THEN response' = Http404 /\ UNCHANGED <<comments, next_comment_id>>
           ELSE IF method = "POST" /\ CommentForm_is_valid(text)
           THEN IF ~is_authenticated(user)
                THEN response' = ServerError /\ UNCHANGED <<comments, next_comment_id>>
                ELSE /\ next_comment_id <= MaxComments
                     /\ comments' = Insert(comments, next_comment_id,
                                           new_comment(text, user, post_id))
                     /\ next_comment_id' = next_comment_id + 1
                     /\ response' = redirect_to_post(post_id)
           ELSE /\ response' =
                     [render("blog/detail.html") EXCEPT
                         !.post_id = post_id,
                         !.comments = comments_of(post_id),
                         !.form_errors = (method = "POST")]
                /\ UNCHANGED <<comments, next_comment_id>>

\* PostCreateView (views.py 128-141)
PostCreateView ==
    \E user \in Clients, method \in Methods, form \in PostForms :
        /\ Idle
        /\ method = "GET" => form = InvalidPostForm
        /\ request' = [Req("post_create", user, method) EXCEPT !.valid = form.valid]
        /\ UNCHANGED <<now, comments, next_comment_id>>
        /\ IF ~is_authenticated(user)
           THEN response' = redirect_to_login /\ UNCHANGED <<posts, next_post_id>>
           ELSE IF method = "POST" /\ form.valid
           THEN /\ next_post_id <= MaxPosts
                /\ posts' = Insert(posts, next_post_id,
                                   PostCreateView_form_valid(form, user))
                /\ next_post_id' = next_post_id + 1
                /\ response' = [redirect("blog:profile") EXCEPT !.name = user]
           ELSE /\ response' = [render("blog/create.html") EXCEPT
                                   !.form_errors = (method = "POST")]
                /\ UNCHANGED <<posts, next_post_id>>

\* OnlyAuthorMixin.handle_no_permission (views.py 38-39): get_object(), then a
\* redirect to the post's detail view
OnlyAuthorMixin_handle_no_permission(post_id, guard) ==
    IF ~post_exists(post_id) THEN Http404
    ELSE [redirect_to_post(post_id) EXCEPT !.guard = guard]

\* PostEditView (views.py 144-155).  The bases are (LoginRequiredMixin,
\* OnlyAuthorMixin, UpdateView): LoginRequiredMixin.dispatch calls
\* self.handle_no_permission(), which resolves to OnlyAuthorMixin's.
PostEditView ==
    \E user \in Clients, method \in Methods, post_id \in PostIds, form \in PostForms :
        /\ Idle
        /\ method = "GET" => form = InvalidPostForm
        /\ request' = [Req("post_edit", user, method) EXCEPT
                          !.post_id = post_id, !.valid = form.valid]
        /\ UNCHANGED <<now, comments, next_post_id, next_comment_id>>
        /\ IF ~is_authenticated(user)
           THEN /\ response' = OnlyAuthorMixin_handle_no_permission(post_id, "none")
                /\ UNCHANGED posts
           ELSE IF ~post_exists(post_id)
           THEN response' = Http404 /\ UNCHANGED posts
           ELSE IF ~OnlyAuthorMixin_test_func(posts[post_id], user)
           THEN /\ response' = OnlyAuthorMixin_handle_no_permission(post_id, "refused")
                /\ UNCHANGED posts
           ELSE IF method = "POST" /\ form.valid
           THEN /\ posts' = [posts EXCEPT
                               ![post_id] = PostEditView_form_valid(posts[post_id], form)]
                /\ response' = [redirect_to_post(post_id) EXCEPT !.guard = "passed"]
           ELSE /\ response' = [render("blog/create.html") EXCEPT
                                   !.post_id = post_id, !.guard = "passed",
                                   !.form_errors = (method = "POST")]
                /\ UNCHANGED posts

\* PostDeleteView (views.py 158-171): GET shows the confirmation page, POST
\* deletes the post
PostDeleteView ==
    \E user \in Clients, method \in Methods, post_id \in PostIds :
        /\ Idle
        /\ request' = [Req("post_delete", user, method) EXCEPT !.post_id = post_id]
        /\ UNCHANGED <<now, next_post_id, next_comment_id>>
        /\ IF ~is_authenticated(user)
           THEN /\ response' = OnlyAuthorMixin_handle_no_permission(post_id, "none")
                /\ UNCHANGED <<posts, comments>>
           ELSE IF ~post_exists(post_id)
           THEN response' = Http404 /\ UNCHANGED <<posts, comments>>
           ELSE IF ~OnlyAuthorMixin_test_func(posts[post_id], user)
           THEN /\ response' = OnlyAuthorMixin_handle_no_permission(post_id, "refused")
                /\ UNCHANGED <<posts, comments>>
           ELSE IF method = "POST"
           THEN /\ posts' = PostDeleteView_delete(posts, post_id)
                /\ comments' = cascade_comments(comments, post_id)
                /\ response' = [redirect("blog:index") EXCEPT !.guard = "passed"]
           ELSE /\ response' = [render("blog/create.html") EXCEPT
                                   !.post_id = post_id, !.guard = "passed"]
                /\ UNCHANGED <<posts, comments>>

\* add_comment (views.py 174-183): behind login_required; whatever the form
\* says, the answer is a redirect to the post's detail view
add_comment ==
    \E user \in Clients, method \in Methods, post_id \in PostIds, text \in Texts :
        /\ Idle
        /\ method = "GET" => text = ""
        /\ request' = [Req("add_comment", user, method) EXCEPT
                          !.post_id = post_id, !.text = text]
        /\ UNCHANGED <<now, posts, next_post_id>>
        /\ IF ~is_authenticated(user)
           THEN response' = redirect_to_login /\ UNCHANGED <<comments, next_comment_id>>
           ELSE IF ~post_exists(post_id)
           THEN response' = Http404 /\ UNCHANGED <<comments, next_comment_id>>
           ELSE IF CommentForm_is_valid(text)
           THEN /\ next_comment_id <= MaxComments
                /\ comments' = Insert(comments, next_comment_id,
                                      new_comment(text, user, post_id))
                /\ next_comment_id' = next_comment_id + 1
                /\ response' = redirect_to_post(post_id)
           ELSE /\ response' = redirect_to_post(post_id)
                /\ UNCHANGED <<comments, next_comment_id>>

\* edit_comment (views.py 186-199): the comment is looked up by comment_id
\* alone; post_id is only where the redirects go
edit_comment ==
    \E user \in Clients, method \in Methods, post_id \in PostIds,
       comment_id \in CommentIds, text \in Texts :
        /\ Idle
        /\ method = "GET" => text = ""
        /\ request' = [Req("edit_comment", user, method) EXCEPT
                          !.post_id = post_id, !.comment_id = comment_id, !.text = text]
        /\ UNCHANGED <<now, posts, next_post_id, next_comment_id>>
        /\ IF ~is_authenticated(user)
           THEN response' = redirect_to_login /\ UNCHANGED comments
           ELSE IF ~comment_exists(comment_id)
           THEN response' = Http404 /\ UNCHANGED comments
           ELSE IF ~comment_author_is_user(comments[comment_id], user)
           THEN /\ response' = [redirect_to_post(post_id) EXCEPT !.guard = "refused"]
                /\ UNCHANGED comments
           ELSE IF method = "POST" /\ CommentForm_is_valid(text)
           THEN /\ comments' = [comments EXCEPT ![comment_id].text = text]
                /\ response' = [redirect_to_post(post_id) EXCEPT !.guard = "passed"]
           ELSE /\ response' = [render("blog/comment.html") EXCEPT
                                   !.guard = "passed",
                                   !.form_errors = (method = "POST")]
                /\ UNCHANGED comments

\* delete_comment (views.py 202-214)
delete_comment ==
    \E user \in Clients, method \in Methods, post_id \in PostIds,
       comment_id \in CommentIds :
        /\ Idle
        /\ request' = [Req("delete_comment", user, method) EXCEPT
                          !.post_id = post_id, !.comment_id = comment_id]
        /\ UNCHANGED <<now, posts, next_post_id, next_comment_id>>
        /\ IF ~is_authenticated(user)
           THEN response' = redirect_to_login /\ UNCHANGED comments
           ELSE IF ~comment_exists(comment_id)
           THEN response' = Http404 /\ UNCHANGED comments
           ELSE IF ~comment_author_is_user(comments[comment_id], user)
           THEN /\ response' = [redirect_to_post(post_id) EXCEPT !.guard = "refused"]
                /\ UNCHANGED comments
           ELSE IF method = "POST"
           THEN /\ comments' = Remove(comments, {comment_id})
                /\ response' = [redirect_to_post(post_id) EXCEPT !.guard = "passed"]
           ELSE /\ response' = [render("blog/comment.html") EXCEPT !.guard = "passed"]
                /\ UNCHANGED comments

\* the answer goes back to the client; the handler keeps nothing
Deliver ==
    /\ ~Idle
    /\ request' = NoRequest
    /\ response' = NoResponse
    /\ ReadOnly

\* time passes between requests
Tick ==
    /\ Idle
    /\ now < MaxTime
    /\ now' = now + 1
    /\ UNCHANGED <<posts, comments, next_post_id, next_comment_id, request, response>>

(* --------------------------- specifications ---------------------------- *)
\* the store as created: no posts, no comments
Init ==
    /\ now = 0
    /\ posts = <<>>
    /\ comments = <<>>
    /\ next_post_id = 1
    /\ next_comment_id = 1
    /\ request = NoRequest
    /\ response = NoResponse

Next ==
    \/ index(FewPages)
    \/ category_posts(FewPages)
    \/ UserProfileView(FewPages)
    \/ post_detail
    \/ PostCreateView
    \/ PostEditView
    \/ PostDeleteView
    \/ add_comment
    \/ edit_comment
    \/ delete_comment
    \/ Deliver
    \/ Tick

Spec == Init /\ [][Next]_vars

\* Pagination over stores of up to MaxItems posts: the store starts with n
\* posts of alice's, all available, and the three list views are requested
\* with every kind of 'page' parameter.
ListedPost == [author |-> "alice", is_published |-> TRUE, pub_date |-> 0,
               category |-> "travel"]

InitPage ==
    /\ now = 0
    /\ \E n \in 0..MaxItems :
          /\ posts = [id \in 1..n |-> ListedPost]
          /\ next_post_id = n + 1
    /\ comments = <<>>
    /\ next_comment_id = 1
    /\ request = NoRequest
    /\ response = NoResponse

NextPage ==
    \/ index(ManyPages)
    \/ category_posts(ManyPages)
    \/ UserProfileView(ManyPages)
    \/ Deliver

SpecPage == InitPage /\ [][NextPage]_vars

(* ------------------------------- claims -------------------------------- *)
\* the three predicates of an available post, read off the row
IsAvailable(id) ==
    /\ posts[id].is_published
    /\ CategoryIsPublished[posts[id].category]
    /\ posts[id].pub_date <= now

\* the requests that are answered by a handler that can write to the store
MutatingRequest ==
    \/ request.op \in {"post_create", "post_edit", "post_delete", "add_comment",
                       "edit_comment", "delete_comment"}
    \/ request.op = "post_detail" /\ request.method = "POST"

\* C1: the posts that index lists are exactly the posts that are published, in
\* a published category and dated no later than now; the posts that the
\* category view lists are exactly those of them in the (published) category
\* requested; the page shown is drawn from that set.
C1_AvailableIffThreePredicates ==
    /\ request.op = "index" =>
          /\ response.status = "render"
          /\ response.post_list = {id \in DOMAIN posts : IsAvailable(id)}
          /\ SeqToSet(response.page.object_list) \subseteq response.post_list
    /\ request.op = "category_posts" /\ response.status = "render" =>
          /\ request.name \in Categories
          /\ CategoryIsPublished[request.name]
          /\ response.post_list =
                {id \in DOMAIN posts :
                    posts[id].category = request.name /\ IsAvailable(id)}
          /\ SeqToSet(response.page.object_list) \subseteq response.post_list

\* C1 witness: index lists one post and leaves another out
C1_Witness ==
    /\ request.op = "index"
    /\ response.post_list # {}
    /\ response.post_list # DOMAIN posts

\* C2 (as claimed): an unauthenticated request for a mutating operation (on a
\* post that exists and is published, when it names one) is answered with a
\* redirect to login, without the authorship check being consulted.
C2_AnonymousRedirectedToLogin ==
    (/\ MutatingRequest
     /\ request.user = Anonymous
     /\ request.op # "post_create" =>
           /\ request.post_id \in DOMAIN posts
           /\ ~post_detail_hidden(posts[request.post_id], request.user))
    => /\ response.status = "redirect"
       /\ response.to = "login"
       /\ response.guard = "none"

\* the post a refused edit or delete is about: the post itself, or the post the
\* comment belongs to
PostConcerned(req) ==
    IF req.op \in {"post_edit", "post_delete"} THEN req.post_id
    ELSE comments[req.comment_id].post

\* the author of the resource a request names (read before the handler runs)
ResourceExists(req) ==
    IF req.op \in {"post_edit", "post_delete"} THEN req.post_id \in DOMAIN posts
    ELSE req.comment_id \in DOMAIN comments
ResourceAuthor(req) ==
    IF req.op \in {"post_edit", "post_delete"} THEN posts[req.post_id].author
    ELSE comments[req.comment_id].author

GuardedOps == {"post_edit", "post_delete", "edit_comment", "delete_comment"}

\* C3 (as claimed): a POST by an authenticated user who is neither the author
\* nor a superuser, to edit or delete another user's post or comment, changes
\* no post and no comment and is answered with a redirect to the detail view of
\* the post concerned.
C3_RefusedPostRedirectsToItsPost ==
    [][(/\ Idle
        /\ request'.op \in GuardedOps
        /\ request'.method = "POST"
        /\ is_authenticated(request'.user)
        /\ ~is_superuser(request'.user)
        /\ ResourceExists(request')
        /\ ResourceAuthor(request') # request'.user)
       => /\ posts' = posts
          /\ comments' = comments
          /\ response'.status = "redirect"
          /\ response'.to = "blog:post_detail"
          /\ response'.post_id = PostConcerned(request')]_vars

\* C4 (as claimed): for post edit, post delete, comment edit and comment delete
\* alike, an authenticated user passes the guard iff they are the resource's
\* author or a superuser.
C4_UniformAuthorization ==
    [][(/\ Idle
        /\ request'.op \in GuardedOps
        /\ is_authenticated(request'.user)
        /\ ResourceExists(request'))
       => (response'.guard = "passed"
             <=> \/ ResourceAuthor(request') = request'.user
                 \/ is_superuser(request'.user))]_vars

\* C4 (amended): an authenticated user passes the guard of post edit and post
\* delete iff they are the post's author or a superuser, and the guard of
\* comment edit and comment delete iff they are the comment's author (a
\* superuser who is not the author is refused); a request that does not pass
\* the guard changes nothing.
C4_AuthorizationByResource ==
    [][(/\ Idle
        /\ request'.op \in GuardedOps)
       => /\ (is_authenticated(request'.user) /\ ResourceExists(request'))
               => /\ response'.guard \in {"passed", "refused"}
                  /\ response'.guard = "passed"
                       <=> \/ ResourceAuthor(request') = request'.user
                           \/ /\ request'.op \in {"post_edit", "post_delete"}
                              /\ is_superuser(request'.user)
          /\ response'.guard # "passed" => posts' = posts /\ comments' = comments]_vars

\* C4 witness: a superuser who is not the comment's author was refused
C4_Witness ==
    /\ request.op \in {"edit_comment", "delete_comment"}
    /\ is_superuser(request.user)
    /\ request.comment_id \in DOMAIN comments
    /\ comments[request.comment_id].author # request.user
    /\ response.guard = "refused"

\* C5: the detail view of an existing unpublished post answers its author with
\* the post (a GET renders it; a valid comment POST redirects back to it), and
\* answers every other viewer, anonymous, authenticated or superuser, with
\* not-found.
C5_UnpublishedDetailOnlyForAuthor ==
    (/\ request.op = "post_detail"
     /\ request.post_id \in DOMAIN posts
     /\ ~posts[request.post_id].is_published)
    => IF request.user = posts[request.post_id].author
       THEN /\ response.status \in {"render", "redirect"}
            /\ response.post_id = request.post_id
            /\ request.method = "GET" =>
                  response.status = "render" /\ response.to = "blog/detail.html"
       ELSE response = Http404

\* C5 witness: a superuser asked for another user's unpublished post
C5_Witness ==
    /\ request.op = "post_detail"
    /\ request.post_id \in DOMAIN posts
    /\ ~posts[request.post_id].is_published
    /\ is_superuser(request.user)
    /\ posts[request.post_id].author # request.user
    /\ response.status = "not_found"

\* C6 (as claimed): a viewer who is not the author is shown a post, in the
\* index list, in a category list or by the detail view, only if the post is
\* available.
C6_NonAuthorSeesOnlyAvailable ==
    /\ request.op \in {"index", "category_posts"} =>
          \A id \in SeqToSet(response.page.object_list) : IsAvailable(id)
    /\ (/\ request.op = "post_detail"
        /\ response.status = "render"
        /\ posts[request.post_id].author # request.user)
       => IsAvailable(request.post_id)

\* the list views' requests that name something that exists
ListRequest ==
    \/ request.op = "index"
    \/ request.op = "category_posts" /\ request.name \in Categories
                                     /\ CategoryIsPublished[request.name]
    \/ request.op = "profile" /\ request.name \in Users

\* C7 (as claimed): in index, category and profile alike, an absent or
\* non-numeric 'page' shows page 1, a number beyond the last page shows the
\* last page, never not-found, and a page holds at most 10 posts.
C7_PageClamped ==
    ListRequest =>
       /\ response.status = "render"
       /\ Len(response.page.object_list) <= 10
       /\ request.page.kind # "int" => response.page.number = 1
       /\ (request.page.kind = "int" /\ request.page.n > response.page.num_pages)
             => response.page.number = response.page.num_pages

\* C8: once its author has POSTed the deletion of a post, the
\* post and every comment on it are gone; no comment ever references a post
\* that is not in the store; a deleted post never comes back, and a detail
\* request for a post that is not in the store is answered not-found.
C8_DeleteRemovesPostAndComments ==
    /\ [](\A c \in DOMAIN comments : comments[c].post \in DOMAIN posts)
    /\ [](request.op = "post_detail" /\ request.post_id \notin DOMAIN posts
             => response = Http404)
    /\ [][/\ (/\ Idle
              /\ request'.op = "post_delete"
              /\ request'.method = "POST"
              /\ request'.post_id \in DOMAIN posts
              /\ posts[request'.post_id].author = request'.user)
             => /\ request'.post_id \notin DOMAIN posts'
                /\ \A c \in DOMAIN comments' : comments'[c].post # request'.post_id
          /\ \A id \in 1..(next_post_id - 1) :
                id \notin DOMAIN posts => id \notin DOMAIN posts']_vars

\* C8 witness: an author's delete went through, and the comment that had been
\* written is gone with the post
C8_Witness ==
    /\ request.op = "post_delete"
    /\ request.method = "POST"
    /\ response.guard = "passed"
    /\ ~is_superuser(request.user)
    /\ request.post_id \notin DOMAIN posts
    /\ next_comment_id > 1
    /\ DOMAIN comments = {}

\* C9: every post and every comment that enters the store has the acting,
\* authenticated user of that request as its author, and no later request
\* changes the author of a stored post or comment.
C9_AuthorIsActingUser ==
    /\ [](/\ \A id \in DOMAIN posts : posts[id].author \in Users
          /\ \A c \in DOMAIN comments : comments[c].author \in Users)
    /\ [][/\ \A id \in DOMAIN posts' :
                IF id \in DOMAIN posts
                THEN posts'[id].author = posts[id].author
                ELSE /\ request'.op = "post_create"
                     /\ posts'[id].author = request'.user
          /\ \A c \in DOMAIN comments' :
                IF c \in DOMAIN comments
                THEN comments'[c].author = comments[c].author
                ELSE /\ request'.op \in {"add_comment", "post_detail"}
                     /\ comments'[c].author = request'.user]_vars

\* C9 witness: a superuser's and another user's posts are in the store
C9_Witness ==
    /\ request.op = "post_create"
    /\ response.status = "redirect"
    /\ \E a, b \in DOMAIN posts : posts[a].author # posts[b].author

\* C10 (as claimed): an authenticated user's POST of a comment with an empty
\* text, to either comment-creating handler and for a post the user can see,
\* is answered by re-rendering the form with its errors, not by a redirect.
C10_EmptyCommentRerendersForm ==
    (/\ request.op \in {"add_comment", "post_detail"}
     /\ request.method = "POST"
     /\ is_authenticated(request.user)
     /\ request.text = ""
     /\ request.post_id \in DOMAIN posts
     /\ ~post_detail_hidden(posts[request.post_id], request.user))
    => /\ response.status = "render"
       /\ response.form_errors

====
